---- MODULE Spec2Model ----
(***************************************************************************)
(* State-machine model of snapdragon-scanner (class Scanner, the version   *)
(* with `rules` and `state`, src/unnamed/part_000 lines 253-582).          *)
(*                                                                         *)
(* JavaScript strings are sequences of one-character strings.  An optional *)
(* value (a token or `undefined`, a capture group or `undefined`) is a     *)
(* sequence of length at most one: None is `undefined`, Some(x) is x.      *)
(* The caller-supplied Token class (options.Token) is an external          *)
(* collaborator; the model is the scanner built without it.                *)
(***************************************************************************)
EXTENDS Integers, Sequences, FiniteSets, TLC

(* ------------------------------ bounds --------------------------------- *)
\* longest input string drawn by the constructor; also the largest len
\* passed to consume(len)
MaxLen == 2
\* the callers modelled do not grow the queue beyond this many tokens; also
\* the largest n passed to lookahead(n)
MaxQueue == 2

(* --------------------------- JavaScript values ------------------------- *)
None == <<>>
Some(x) == <<x>>
IsSome(o) == o # <<>>
Get(o) == o[1]

Alphabet == {"a", "b"}

Min(x, y) == IF x < y THEN x ELSE y

\* String.prototype.slice(from, to) for 0 <= from, 0 <= to
Slice(s, from, to) == SubSeq(s, Min(from, Len(s)) + 1, Min(to, Len(s)))

\* String.prototype.slice(from)
SliceFrom(s, from) == SubSeq(s, Min(from, Len(s)) + 1, Len(s))

\* strings of length at most n over Alphabet
Strings(n) == UNION {[1..k -> Alphabet] : k \in 0..n}

(* ------------------------------ patterns ------------------------------- *)
(* A pattern object is one of a catalogue of concrete values a caller may  *)
(* register.  A regular expression is described by what RegExp.exec needs: *)
(*   src0   the first character of its source ("^" when written anchored)  *)
(*   look   TRUE for the zero-width lookahead /^(?=.)/ of src/test.js      *)
(*   first  the class of the mandatory first character ({} when absent)    *)
(*   rest   the class of the greedily repeated following characters        *)
(*   grp    capturing group 1: "none", "first" (around the first           *)
(*          character), "all" (around the whole match), "empty" (an empty  *)
(*          group `()` at the start)                                       *)
(* isRegExp is FALSE for a value that is not a RegExp (a string).          *)
(***************************************************************************)
Regex(id, src0, look, first, rest, grp) ==
  [id |-> id, isRegExp |-> TRUE, src0 |-> src0, look |-> look,
   first |-> first, rest |-> rest, grp |-> grp]

ReA      == Regex("/^a/", "^", FALSE, {"a"}, {}, "none")
ReAB     == Regex("/^(a)b*/", "^", FALSE, {"a"}, {"b"}, "first")
ReBs     == Regex("/^b+/", "^", FALSE, {"b"}, {"b"}, "none")
ReLook   == Regex("/^(?=.)/", "^", TRUE, {}, {}, "none")
ReBstar  == Regex("/^b*/", "^", FALSE, {}, {"b"}, "none")
ReEmptyA == Regex("/^()a/", "^", FALSE, {"a"}, {}, "empty")
ReFloat  == Regex("/b/", "b", FALSE, {"b"}, {}, "none")
NotRegex == [id |-> "'b'", isRegExp |-> FALSE, src0 |-> "b", look |-> FALSE,
             first |-> {"b"}, rest |-> {}, grp |-> "none"]

Patterns == {ReA, ReAB, ReBs, ReLook, ReBstar, ReEmptyA, ReFloat, NotRegex}

\* length of the longest prefix of s made of characters of cls
RECURSIVE RunLen(_, _)
RunLen(s, cls) ==
  IF s = <<>> \/ s[1] \notin cls THEN 0 ELSE 1 + RunLen(Tail(s), cls)

\* the text the pattern matches at the very start of s, None when it does not
MatchAtStart(re, s) ==
  IF re.look
    THEN IF s # <<>> THEN Some(<<>>) ELSE None
  ELSE IF re.first # {}
    THEN IF s # <<>> /\ s[1] \in re.first
           THEN Some(<<s[1]>> \o Slice(Tail(s), 0, RunLen(Tail(s), re.rest)))
           ELSE None
  ELSE Some(Slice(s, 0, RunLen(s, re.rest)))

\* capturing group 1 of a match whose text is full
Group1(re, full) ==
  CASE re.grp = "first" -> Some(Slice(full, 0, 1))
    [] re.grp = "all"   -> Some(full)
    [] re.grp = "empty" -> Some(<<>>)
    [] OTHER            -> None

(* regex.exec(s): the match array ([0], [1], index), None for null.  A      *)
(* source that starts with "^" matches at index 0 only; any other source is *)
(* searched for from left to right.  ExecAt decides index i from m, the     *)
(* text matched there.                                                      *)
RECURSIVE ExecFrom(_, _, _)
ExecAt(re, s, i, m) ==
  IF IsSome(m)
    THEN Some([full |-> Get(m), g1 |-> Group1(re, Get(m)), index |-> i])
  ELSE IF re.src0 = "^" \/ i >= Len(s) THEN None
  ELSE ExecFrom(re, s, i + 1)

ExecFrom(re, s, i) == ExecAt(re, s, i, MatchAtStart(re, SliceFrom(s, i)))

Exec(re, s) == ExecFrom(re, s, 0)

(* --------------------------- scanner state ----------------------------- *)
VARIABLES
  rules,    \* this.rules: sequence of [name, patterns], in Map insertion order
  state,    \* this.state: [consumed, position, string, input, queue]
  keyed,    \* ids of the pattern objects carrying regex[this.key] === true
  op,       \* the public call that produced this state: [name, n, id]; n is
            \* a numeric argument rounded down, id what else tells calls apart
            \* (addRule: id is the rule name, and patterns the second argument)
  ret,      \* what that call returned (None for undefined/null)
  err,      \* the error that call threw, None when it returned
  scanned   \* the tokens returned so far in a run that calls only scan()

vars == <<rules, state, keyed, op, ret, err, scanned>>

MsgString == "expected a string"
MsgRegExp == "expected a regular expression"
MsgAnchor == "expected regex to start with \"^\""
MsgEmpty  == "unsafe regex: regex should not match an empty string"
MsgNumber == "expected a number"

\* err.string = this.state.string.slice(0, 20)
SnippetLen == 20

Call(name, n, id) == [name |-> name, n |-> n, id |-> id]

\* eos()
Eos(st) == st.string = <<>> /\ st.queue = <<>>

\* bos()
Bos(st) == st.consumed = <<>>

(* match(regex): the outcome is "match" with the match array, "null" for    *)
(* null/undefined, or "throw" with the message of the failed assert; keyed  *)
(* is the set of marked patterns after the call.  MatchExec is the part of  *)
(* match after regex.exec, whose result is m.                               *)
MatchResult(out, m, msg, k) == [out |-> out, match |-> m, msg |-> msg, keyed |-> k]

\* a match that lets an empty match through
MatchExecAllowsEmpty(st, k, m) ==
  IF ~IsSome(m) THEN MatchResult("null", None, "", k)
  ELSE MatchResult("match", Some([Get(m) EXCEPT !.index = st.position]), "", k)

MatchExec(st, k, m) ==
  IF ~IsSome(m) THEN MatchResult("null", None, "", k)
  ELSE IF Get(m).full = <<>> THEN MatchResult("throw", None, MsgEmpty, k)
  ELSE MatchResult("match", Some([Get(m) EXCEPT !.index = st.position]), "", k)

\* a match that marks the pattern before it checks the anchor
MatchMarksFirst(re, st, k) ==
  IF Eos(st) THEN MatchResult("null", None, "", k)
  ELSE IF ~re.isRegExp THEN MatchResult("throw", None, MsgRegExp, k)
  ELSE IF re.id \notin k /\ re.src0 # "^"
    THEN MatchResult("throw", None, MsgAnchor, k \cup {re.id})
  ELSE MatchExec(st, k \cup {re.id}, Exec(re, st.string))

Match(re, st, k) ==
  IF Eos(st) THEN MatchResult("null", None, "", k)
  ELSE IF ~re.isRegExp THEN MatchResult("throw", None, MsgRegExp, k)
  ELSE IF re.id \notin k /\ re.src0 # "^" THEN MatchResult("throw", None, MsgAnchor, k)
  ELSE MatchExec(st, k \cup {re.id}, Exec(re, st.string))

\* token(type, match) without options.Token: value is match[1] || match[0]
Token(type, match) ==
  [type  |-> type,
   value |-> IF IsSome(match.g1) /\ Get(match.g1) # <<>> THEN Get(match.g1) ELSE match.full,
   match |-> match]

\* token.range = [pos, pos + token.match[0].length]
Ranged(t, pos) ==
  [type |-> t.type, value |-> t.value, match |-> t.match,
   range |-> <<pos, pos + Len(t.match.full)>>]

\* a consume that drops one character more than len from the string
ConsumeSkips(len, value, st) ==
  [st EXCEPT !.consumed = @ \o value,
             !.position = @ + len,
             !.string = SliceFrom(@, len + 1)]

\* consume(len, value)
Consume(len, value, st) ==
  [st EXCEPT !.consumed = @ \o value,
             !.position = @ + len,
             !.string = SliceFrom(@, len)]

\* what a queue holds after queue.push(undefined)
Undefined ==
  [type |-> "undefined", value |-> <<>>,
   match |-> [full |-> <<>>, g1 |-> None, index |-> 0], range |-> <<0, 0>>]

\* an enqueue without the test of its argument
EnqueueAny(q, token) == Append(q, IF IsSome(token) THEN Get(token) ELSE Undefined)

\* an enqueue that puts the token at the front: queue.unshift(token)
EnqueueFront(q, token) == IF IsSome(token) THEN <<Get(token)>> \o q ELSE q

\* enqueue(token) on the queue q
Enqueue(q, token) == IF IsSome(token) THEN Append(q, Get(token)) ELSE q

\* the (rule, regex) pairs in the order the two loops of advance() visit them
RECURSIVE Flat(_)
\* loops that visit the rules registered last first
FlatBackwards(rs) ==
  IF rs = <<>> THEN <<>>
  ELSE Flat(Tail(rs))
       \o [i \in 1..Len(rs[1].patterns) |-> [rule |-> rs[1].name, regex |-> rs[1].patterns[i]]]

Flat(rs) ==
  IF rs = <<>> THEN <<>>
  ELSE [i \in 1..Len(rs[1].patterns) |-> [rule |-> rs[1].name, regex |-> rs[1].patterns[i]]]
       \o Flat(Tail(rs))

(* advance(): "token" with the token, "none" for undefined, or "throw" with *)
(* the error annotated by the catch block.  AdvanceFrom is the loops from   *)
(* pair i on; AdvanceTry is the body of the try for pair i, m being what    *)
(* this.match(regex) did.                                                   *)
AdvanceResult(out, tok, e, k) == [out |-> out, token |-> tok, err |-> e, keyed |-> k]

RECURSIVE AdvanceFrom(_, _, _, _)
\* a catch block that attaches the whole remaining string to the error
AdvanceTryWholeString(flat, i, st, m) ==
  CASE m.out = "throw" ->
         AdvanceResult("throw", None,
           Some([message |-> m.msg, rule |-> Some(flat[i].rule),
                 string |-> Some(st.string)]), m.keyed)
    [] m.out = "match" ->
         AdvanceResult("token",
           Some(Ranged(Token(flat[i].rule, Get(m.match)), st.position)), None, m.keyed)
    [] OTHER -> AdvanceFrom(flat, i + 1, st, m.keyed)

AdvanceTry(flat, i, st, m) ==
  CASE m.out = "throw" ->
         AdvanceResult("throw", None,
           Some([message |-> m.msg, rule |-> Some(flat[i].rule),
                 string |-> Some(Slice(st.string, 0, SnippetLen))]), m.keyed)
    [] m.out = "match" ->
         AdvanceResult("token",
           Some(Ranged(Token(flat[i].rule, Get(m.match)), st.position)), None, m.keyed)
    [] OTHER -> AdvanceFrom(flat, i + 1, st, m.keyed)

AdvanceFrom(flat, i, st, k) ==
  IF i > Len(flat) THEN AdvanceResult("none", None, None, k)
  ELSE AdvanceTry(flat, i, st, Match(flat[i].regex, st, k))

Advance(rs, st, k) ==
  IF Eos(st) THEN AdvanceResult("none", None, None, k)
  ELSE AdvanceFrom(Flat(rs), 1, st, k)

(* lookahead(n).  The argument is [isNumber, twice]: twice is 2*n, so that  *)
(* a half-integer n can be passed; isNumber is FALSE for a non-number.      *)
(* The result of a call is [out, token, err, state, keyed].                 *)
LookResult(out, tok, e, st, k) ==
  [out |-> out, token |-> tok, err |-> e, state |-> st, keyed |-> k]

\* while (fetch-- > 0 && this.enqueue(this.advance()));  fetch2 is 2*fetch,
\* and a is what this.advance() did in the round
RECURSIVE LookLoop(_, _, _, _)
\* a round that empties the queue when advance() throws
LookRoundClears(fetch2, rs, st, a) ==
  CASE a.out = "throw" ->
         LookResult("throw", None, a.err, [st EXCEPT !.queue = <<>>], a.keyed)
    [] a.out = "none"  -> LookResult("ok", None, None, st, a.keyed)
    [] OTHER ->
         LookLoop(fetch2 - 2, rs, [st EXCEPT !.queue = Enqueue(@, a.token)], a.keyed)

LookRound(fetch2, rs, st, a) ==
  CASE a.out = "throw" -> LookResult("throw", None, a.err, st, a.keyed)
    [] a.out = "none"  -> LookResult("ok", None, None, st, a.keyed)
    [] OTHER ->
         LookLoop(fetch2 - 2, rs, [st EXCEPT !.queue = Enqueue(@, a.token)], a.keyed)

LookLoop(fetch2, rs, st, k) ==
  IF fetch2 <= 0 THEN LookResult("ok", None, None, st, k)
  ELSE LookRound(fetch2, rs, st, Advance(rs, st, k))

\* this.state.queue[--n]
QueueAt(q, twice) ==
  IF twice % 2 = 0 /\ (twice \div 2) - 1 >= 0 /\ (twice \div 2) - 1 < Len(q)
    THEN Some(q[twice \div 2])
    ELSE None

\* return this.state.queue[--n], l being the scanner after the loop
LookReturn(n, l) ==
  IF l.out = "throw" THEN l ELSE [l EXCEPT !.token = QueueAt(l.state.queue, n.twice)]

Lookahead(n, rs, st, k) ==
  IF ~n.isNumber
    THEN LookResult("throw", None,
           Some([message |-> MsgNumber, rule |-> None, string |-> None]), st, k)
  ELSE LookReturn(n, LookLoop(n.twice - 2 * Len(st.queue), rs, st, k))

Number(i) == [isNumber |-> TRUE, twice |-> 2 * i]

\* peek()
Peek(rs, st, k) == Lookahead(Number(1), rs, st, k)

\* the call result of an advance() that did a on the scanner st
Advanced(st, a) ==
  LookResult(IF a.out = "throw" THEN "throw" ELSE "ok", a.token, a.err, st, a.keyed)

\* a next that takes the newest queued token: queue.pop() || this.advance()
NextPops(rs, st, k) ==
  IF st.queue # <<>>
    THEN LookResult("ok", Some(st.queue[Len(st.queue)]), None,
                    [st EXCEPT !.queue = SubSeq(@, 1, Len(@) - 1)], k)
    ELSE Advanced(st, Advance(rs, st, k))

\* next(): this.state.queue.shift() || this.advance()
Next_(rs, st, k) ==
  IF st.queue # <<>>
    THEN LookResult("ok", Some(Head(st.queue)), None, [st EXCEPT !.queue = Tail(@)], k)
    ELSE Advanced(st, Advance(rs, st, k))

\* a scan that drops one character when next() has no token
ScanTokenSkips(nx) ==
  IF nx.out = "ok" /\ IsSome(nx.token)
    THEN [nx EXCEPT !.state = Consume(Len(Get(nx.token).match.full),
                                      Get(nx.token).match.full, @)]
  ELSE IF nx.out = "ok"
    THEN [nx EXCEPT !.state = Consume(1, Slice(nx.state.string, 0, 1), @)]
    ELSE nx

\* a scan that returns the token and consumes nothing
ScanTokenKeeps(nx) == nx

\* scan() after let token = this.next(), nx being what next() did
ScanToken(nx) ==
  IF nx.out = "ok" /\ IsSome(nx.token)
    THEN [nx EXCEPT !.state = Consume(Len(Get(nx.token).match.full),
                                      Get(nx.token).match.full, @)]
    ELSE nx

\* scan()
Scan(rs, st, k) == ScanToken(Next_(rs, st, k))

\* addRule as delete-then-set: a re-registered name moves to the end
AddRuleMovesToEnd(rs, name, patterns) ==
  Append(SelectSeq(rs, LAMBDA r : r.name # name),
         [name |-> name, patterns |-> patterns])

\* addRule(rule, regex): Map.set keeps the place of a key that is present
AddRule(rs, name, patterns) ==
  IF \E i \in 1..Len(rs) : rs[i].name = name
    THEN [i \in 1..Len(rs) |->
            IF rs[i].name = name THEN [name |-> name, patterns |-> patterns] ELSE rs[i]]
    ELSE Append(rs, [name |-> name, patterns |-> patterns])

\* addRules(rules) for a list of [name, patterns] specs
RECURSIVE AddRules(_, _)
AddRules(rs, specs) ==
  IF specs = <<>> THEN rs
  ELSE AddRules(AddRule(rs, specs[1].name, specs[1].patterns), Tail(specs))

(* scanWhile(fn) for three predicates: "default" is the default parameter   *)
(* () => !this.eos(), "never" is () => false, and "notR2" is                *)
(* tok => tok && tok.type !== 'r2' (the shape used in src/example.js).      *)
\* every predicate read as tok => tok
PredOnToken(fn, tok, st) == IsSome(tok)

Pred(fn, tok, st) ==
  CASE fn = "default" -> ~Eos(st)
    [] fn = "never"   -> FALSE
    [] OTHER          -> IsSome(tok) /\ Get(tok).type # "r2"

Predicates == {"default", "never", "notR2"}

(* while (fn.call(this, this.peek())) scanned.push(this.scan());  acc is    *)
(* the array `scanned`, p what this.peek() did and sc what this.scan() did. *)
(* A round whose scan() returns undefined leaves the scanner as it was, so  *)
(* the loop repeats it for ever: "diverges".                                *)
RECURSIVE WhileLoop(_, _, _, _, _)
WhileScanned(fn, rs, acc, sc) ==
  IF sc.out = "throw" THEN sc
  ELSE IF ~IsSome(sc.token) THEN LookResult("diverges", None, None, sc.state, sc.keyed)
  ELSE WhileLoop(fn, rs, sc.state, sc.keyed, Append(acc, Get(sc.token)))

WhilePeeked(fn, rs, acc, p) ==
  IF p.out = "throw" THEN p
  ELSE IF ~Pred(fn, p.token, p.state)
    THEN LookResult("ok", Some(acc), None, p.state, p.keyed)
  ELSE WhileScanned(fn, rs, acc, Scan(rs, p.state, p.keyed))

WhileLoop(fn, rs, st, k, acc) == WhilePeeked(fn, rs, acc, Peek(rs, st, k))

ScanWhile(fn, rs, st, k) == WhileLoop(fn, rs, st, k, <<>>)

(* ------------------------------ inputs --------------------------------- *)
Rule(name, patterns) == [name |-> name, patterns |-> patterns]

\* lists of one or two specs with different names
Lists(specs) ==
  {<<>>} \cup {<<x>> : x \in specs}
    \cup {<<p[1], p[2]>> : p \in {q \in specs \X specs : q[1].name # q[2].name}}

\* options.rules of the scanners driven through every public operation
RuleLists ==
  {<<>>,
   <<Rule("r1", <<ReAB>>), Rule("r2", <<ReBs>>)>>,
   <<Rule("r2", <<ReLook, ReFloat>>), Rule("r1", <<ReA>>)>>}

\* the (name, [].concat(regex)) pairs of the scanners that only produce tokens
TokenRuleSpecs ==
  {Rule("r1", <<ReA>>), Rule("r1", <<ReAB, ReA>>), Rule("r1", <<ReA, ReAB>>),
   Rule("r1", <<ReLook>>), Rule("r1", <<ReFloat>>), Rule("r1", <<ReEmptyA>>),
   Rule("r2", <<ReBs>>), Rule("r2", <<ReAB>>), Rule("r2", <<ReBs, ReA>>),
   Rule("r2", <<ReLook>>), Rule("r2", <<ReBstar>>), Rule("r2", <<NotRegex>>)}

\* an input longer than the snippet advance() attaches to an error, and the
\* options.rules it is scanned with
LongInput == [i \in 1..(SnippetLen + 1) |-> "a"]

LongRuleLists ==
  {<<Rule("r1", <<ReA>>)>>, <<Rule("r1", <<ReLook>>)>>,
   <<Rule("r2", <<ReBs>>), Rule("r1", <<ReFloat>>)>>}

\* the patterns registered in rs
Registered(rs) ==
  UNION {{rs[i].patterns[j] : j \in 1..Len(rs[i].patterns)} : i \in 1..Len(rs)}

\* a token a caller builds by hand and passes to enqueue
HandToken ==
  [type |-> "r2", value |-> <<"b">>,
   match |-> [full |-> <<"b">>, g1 |-> None, index |-> 0], range |-> <<0, 1>>]

\* the arguments of lookahead: -1 .. MaxQueue, 1.5, and a string
LookArgs ==
  {Number(i) : i \in (0 - 1)..MaxQueue}
    \cup {[isNumber |-> TRUE, twice |-> 3], [isNumber |-> FALSE, twice |-> 0]}

(* ------------------------------ actions -------------------------------- *)
\* new Scanner(str, {rules})
New(strs, lists) ==
  /\ \E str \in strs :
       state = [consumed |-> <<>>, position |-> 0, string |-> str,
                input |-> str, queue |-> <<>>]
  /\ \E specs \in lists : rules = AddRules(<<>>, specs)
  /\ keyed = {}
  /\ op = Call("new", 0, "")
  /\ ret = None
  /\ err = None
  /\ scanned = <<>>

Init == New(Strings(MaxLen), RuleLists)

\* the scanner and the call's outcome after a call that did r
Finish(name, n, id, r) ==
  /\ op' = Call(name, n, id)
  /\ state' = r.state
  /\ keyed' = r.keyed
  /\ ret' = r.token
  /\ err' = r.err

DoAddRule ==
  \E spec \in TokenRuleSpecs :
    /\ rules' = AddRule(rules, spec.name, spec.patterns)
    /\ op' = [name |-> "addRule", n |-> 0, id |-> spec.name,
              patterns |-> spec.patterns]
    /\ ret' = None
    /\ err' = None
    /\ UNCHANGED <<state, keyed, scanned>>

\* match(regex) called from outside: the error carries no rule
DoMatch ==
  \E re \in Registered(rules) \cup {NotRegex} :
    \E m \in {Match(re, state, keyed)} :
      /\ op' = Call("match", 0, re.id)
      /\ keyed' = m.keyed
      /\ ret' = m.match
      /\ err' = IF m.out = "throw"
                  THEN Some([message |-> m.msg, rule |-> None, string |-> None])
                  ELSE None
      /\ UNCHANGED <<rules, state, scanned>>

\* consume(len) with the default value
DoConsume ==
  \E len \in 0..MaxLen :
    /\ state.position <= Len(state.input)
    /\ state' = Consume(len, Slice(state.string, 0, len), state)
    /\ op' = Call("consume", len, "")
    /\ ret' = Some(Slice(state.string, 0, len))
    /\ err' = None
    /\ UNCHANGED <<rules, keyed, scanned>>

DoAdvance ==
  /\ Finish("advance", 0, "", Advanced(state, Advance(rules, state, keyed)))
  /\ UNCHANGED <<rules, scanned>>

\* enqueue(token) with a token built by hand or with undefined; the queue
\* after enqueue(advance()) is the queue after lookahead(queue.length + 1)
DoEnqueue ==
  \E token \in {None, Some(HandToken)} :
    /\ Len(state.queue) < MaxQueue
    /\ state' = [state EXCEPT !.queue = Enqueue(@, token)]
    /\ op' = Call("enqueue", 0, "")
    /\ ret' = token
    /\ err' = None
    /\ UNCHANGED <<rules, keyed, scanned>>

DoDequeue ==
  /\ state' = [state EXCEPT !.queue = IF @ = <<>> THEN @ ELSE Tail(@)]
  /\ op' = Call("dequeue", 0, "")
  /\ ret' = IF state.queue = <<>> THEN None ELSE Some(Head(state.queue))
  /\ err' = None
  /\ UNCHANGED <<rules, keyed, scanned>>

ArgKind(n) ==
  IF ~n.isNumber THEN "string" ELSE IF n.twice % 2 = 0 THEN "integer" ELSE "fraction"

DoLookahead ==
  \E n \in LookArgs :
    /\ Finish("lookahead", n.twice \div 2, ArgKind(n), Lookahead(n, rules, state, keyed))
    /\ UNCHANGED <<rules, scanned>>

DoPeek ==
  /\ Finish("peek", 0, "", Peek(rules, state, keyed))
  /\ UNCHANGED <<rules, scanned>>

DoNext ==
  /\ Finish("next", 0, "", Next_(rules, state, keyed))
  /\ UNCHANGED <<rules, scanned>>

ScanCall ==
  /\ state.position <= Len(state.input)
  /\ Finish("scan", 0, "", Scan(rules, state, keyed))
  /\ UNCHANGED rules

DoScan == ScanCall /\ UNCHANGED scanned

\* scanWhile(fn), when the call ends
DoScanWhile ==
  \E fn \in Predicates :
    \E w \in {ScanWhile(fn, rules, state, keyed)} :
      /\ state.position <= Len(state.input)
      /\ w.out # "diverges"
      /\ Finish("scanWhile", 0, fn, w)
      /\ UNCHANGED <<rules, scanned>>

\* scan() in a run that calls nothing else
RunScan == ScanCall /\ scanned' = scanned \o ret'

\* every public operation on a scanner whose rules were given at construction
Next ==
  \/ DoMatch
  \/ DoConsume
  \/ DoAdvance
  \/ DoEnqueue
  \/ DoDequeue
  \/ DoLookahead
  \/ DoPeek
  \/ DoNext
  \/ DoScan
  \/ DoScanWhile

Spec == Init /\ [][Next]_vars

\* the operations that produce tokens, over many rule tables
InitTokens ==
  \/ New(Strings(MaxLen), Lists(TokenRuleSpecs))
  \/ New({LongInput}, LongRuleLists)

NextTokens ==
  \/ DoAdvance
  \/ DoLookahead
  \/ DoPeek
  \/ DoNext
  \/ DoScan
  \/ DoScanWhile

SpecTokens == InitTokens /\ [][NextTokens]_vars

\* runs that call scan() and nothing else
NextScan == RunScan

SpecScan == InitTokens /\ [][NextScan]_vars

\* rules added by addRule between calls that produce tokens
NextRules ==
  \/ DoAddRule
  \/ DoPeek
  \/ DoScan

SpecRules == Init /\ [][NextRules]_vars

(* a caller that, after operations that change the queue or the cursor,     *)
(* calls scan() and nothing else: the scans of that run are the calls with  *)
(* id "run", and scanned collects what they return                          *)
DrainRuleSpecs ==
  {Rule("r1", <<ReA>>), Rule("r1", <<ReAB, ReA>>),
   Rule("r2", <<ReBs>>), Rule("r2", <<ReBstar>>), Rule("r2", <<ReLook>>)}

InitDrain == New(Strings(MaxLen), Lists(DrainRuleSpecs))

DrainScan ==
  /\ Finish("scan", 0, "run", Scan(rules, state, keyed))
  /\ scanned' = scanned \o ret'
  /\ UNCHANGED rules

NextDrain ==
  \/ op.id # "run" /\ DoLookahead
  \/ op.id # "run" /\ DoPeek
  \/ op.id # "run" /\ DoNext
  \/ op.id # "run" /\ DoScan
  \/ op.id # "run" /\ DoEnqueue
  \/ DrainScan

SpecDrain == InitDrain /\ [][NextDrain]_vars

(* ---------------------------- properties ------------------------------- *)
\* the concatenation of the strings of a sequence of strings
RECURSIVE Concat(_)
Concat(ss) == IF ss = <<>> THEN <<>> ELSE ss[1] \o Concat(Tail(ss))

\* the matched texts (match[0]) and the value fields of a sequence of tokens
Fulls(toks) == Concat([i \in 1..Len(toks) |-> toks[i].match.full])
Values(toks) == Concat([i \in 1..Len(toks) |-> toks[i].value])

\* the pattern is a regular expression written with "^" that cannot match ""
SafePattern(re) == re.isRegExp /\ re.src0 = "^" /\ ~re.look /\ re.first # {}
SafeRules(rs) == \A re \in Registered(rs) : SafePattern(re)

\* the last call returned a token / returned empty / threw
Returned(name) == op.name = name /\ err = None
Threw(msg) == IsSome(err) /\ Get(err).message = msg

(* C1: after every sequence of public operations, consumed followed by the  *)
(* remaining string is the original input.  The scanner's own lookahead(2)  *)
(* queues the first token twice, and the two scan() calls that follow       *)
(* consume its text twice.                                                  *)
C1_ConsumedThenRemainingIsInput == state.consumed \o state.string = state.input

(* C2, as stated:  with anchored patterns that match no empty text, a run   *)
(* of scan() calls that ends with an empty result leaves nothing remaining, *)
(* and the value fields of the returned tokens concatenate to the input.    *)
ScanRunEnded == Returned("scan") /\ ret = None /\ SafeRules(rules)

MatchesStart(rs, i, j, str) == IsSome(MatchAtStart(rs[i].patterns[j], str))

FirstMatchIs(rs, str, tok) ==
  \E i \in 1..Len(rs) : \E j \in 1..Len(rs[i].patterns) :
    /\ MatchesStart(rs, i, j, str)
    /\ \A i2 \in 1..Len(rs) : \A j2 \in 1..Len(rs[i2].patterns) :
         (i2 < i \/ (i2 = i /\ j2 < j)) => ~MatchesStart(rs, i2, j2, str)
    /\ tok.type = rs[i].name
    /\ tok.match.full = Get(MatchAtStart(rs[i].patterns[j], str))

C3_FirstRuleWins ==
  [][(/\ op'.name = "advance" \/ (op'.name = "scan" /\ state.queue = <<>>)
      /\ IsSome(ret'))
     => FirstMatchIs(rules, state.string, Get(ret'))]_vars

\* advance() chose r1's /^a/ although r2's /^(a)b*/ matches more of "ab"
C3_Witness ==
  /\ op.name = "advance"
  /\ IsSome(ret)
  /\ Len(rules) = 2
  /\ Get(ret).type = rules[1].name
  /\ \E j \in 1..Len(rules[2].patterns) :
       /\ MatchesStart(rules, 2, j, state.string)
       /\ Get(MatchAtStart(rules[2].patterns[j], state.string)) # Get(ret).match.full

(* C4: peek() followed at once by scan() returns the same token from both   *)
(* calls, and peek() leaves consumed, the remaining string and the position *)
(* as they were.                                                            *)
SameCursor(st1, st2) ==
  /\ st1.consumed = st2.consumed
  /\ st1.string = st2.string
  /\ st1.position = st2.position

C4_PeekThenScan ==
  [][/\ op'.name = "peek" => SameCursor(state, state')
     /\ (Returned("peek") /\ op'.name = "scan") => (err' = None /\ ret' = ret)]_vars

\* peek() has returned a token that stays queued, and scan() returns it next
C4_Witness ==
  /\ Returned("peek")
  /\ IsSome(ret)
  /\ state.queue # <<>>
  /\ Scan(rules, state, keyed).token = ret
  /\ Scan(rules, state, keyed).state.consumed = state.consumed \o Get(ret).match.full

(* C5: on an empty queue, when two successive scan() calls from the same    *)
(* state would return two tokens, lookahead(2) returns the second of them   *)
(* leaves the cursor where it was, and leaves the queue holding exactly     *)
(* those two tokens in that order.                                          *)
LookaheadTwoGave(t1, s2, r, q) ==
  (s2.out = "ok" /\ IsSome(s2.token)) => (r = s2.token /\ q = <<t1, Get(s2.token)>>)

AfterFirstScan(s1, r, q) ==
  (s1.out = "ok" /\ IsSome(s1.token))
    => LookaheadTwoGave(Get(s1.token), Scan(rules, s1.state, s1.keyed), r, q)

C5_LookaheadTwoIsSecondScan ==
  [][(op'.name = "lookahead" /\ op'.id = "integer" /\ op'.n = 2 /\ state.queue = <<>>)
     => /\ SameCursor(state, state')
        /\ AfterFirstScan(Scan(rules, state, keyed), ret', state'.queue)]_vars

(* C6: the queued tokens cover consecutive segments of the remaining        *)
(* string: the first begins at the current position, each next one begins   *)
(* where the one before it ends, and each token's matched text is the text  *)
(* of its segment.                                                          *)
SegmentStart(st, i) == IF i = 1 THEN st.position ELSE st.queue[i - 1].range[2]

C6_QueueCoversConsecutiveSegments ==
  \A i \in 1..Len(state.queue) :
    /\ state.queue[i].range[1] = SegmentStart(state, i)
    /\ Slice(state.string, state.queue[i].range[1] - state.position,
             state.queue[i].range[2] - state.position) = state.queue[i].match.full

(* C7: position is the length of the input minus the length of the          *)
(* remaining string, and is the length of consumed.                         *)
C7_PositionCountsConsumed ==
  /\ state.position = Len(state.input) - Len(state.string)
  /\ state.position = Len(state.consumed)

(* C8: when the only registered pattern is anchored and matches the start   *)
(* of a non-empty remaining string with zero length, scan() on the empty    *)
(* queue throws the error of the empty match instead of returning; and no   *)
(* token with an empty matched text is ever returned or queued.             *)
OnlyZeroWidth(rs, str) ==
  /\ Len(rs) = 1
  /\ Len(rs[1].patterns) = 1
  /\ rs[1].patterns[1].isRegExp
  /\ rs[1].patterns[1].src0 = "^"
  /\ MatchAtStart(rs[1].patterns[1], str) = Some(<<>>)

TokenCalls == {"advance", "lookahead", "peek", "next", "scan"}

NoEmptyToken ==
  /\ \A i \in 1..Len(state.queue) : state.queue[i].match.full # <<>>
  /\ (op.name \in TokenCalls /\ IsSome(ret)) => Get(ret).match.full # <<>>
  /\ (op.name = "scanWhile" /\ IsSome(ret))
       => \A i \in 1..Len(Get(ret)) : Get(ret)[i].match.full # <<>>

C8_ZeroWidthMatchThrows ==
  /\ [][(/\ op'.name = "scan"
         /\ state.queue = <<>>
         /\ state.string # <<>>
         /\ OnlyZeroWidth(rules, state.string))
        => (Threw(MsgEmpty)' /\ ret' = None /\ state' = state)]_vars
  /\ []NoEmptyToken

C8_Witness ==
  /\ op.name = "scan"
  /\ Threw(MsgEmpty)
  /\ state.queue = <<>>
  /\ state.consumed = <<>>
  /\ state.string # <<>>
  /\ OnlyZeroWidth(rules, state.string)

(* C9: an error thrown while advance() tries a pattern, in whichever call   *)
(* that reaches advance(), carries the name of the rule being tried (the    *)
(* first pattern in order that is at fault, no pattern before it matching)  *)
(* and the first 20 characters, or fewer, of the remaining string at that   *)
(* moment.                                                                  *)
AtFault(re, str) ==
  \/ ~re.isRegExp
  \/ re.src0 # "^"
  \/ MatchAtStart(re, str) = Some(<<>>)

TriedRule(rs, str, name) ==
  \E i \in 1..Len(rs) : \E j \in 1..Len(rs[i].patterns) :
    /\ AtFault(rs[i].patterns[j], str)
    /\ \A i2 \in 1..Len(rs) : \A j2 \in 1..Len(rs[i2].patterns) :
         (i2 < i \/ (i2 = i /\ j2 < j))
           => /\ ~AtFault(rs[i2].patterns[j2], str)
              /\ ~MatchesStart(rs, i2, j2, str)
    /\ name = rs[i].name

PatternError ==
  /\ op.name \in TokenCalls \cup {"scanWhile"}
  /\ IsSome(err)
  /\ Get(err).message \in {MsgRegExp, MsgAnchor, MsgEmpty}

IsPrefix(p, s) == Len(p) <= Len(s) /\ p = SubSeq(s, 1, Len(p))

C9_ErrorNamesRuleAndSnippet ==
  PatternError =>
    /\ IsSome(Get(err).rule)
    /\ TriedRule(rules, state.string, Get(Get(err).rule))
    /\ IsSome(Get(err).string)
    /\ IsPrefix(Get(Get(err).string), state.string)
    /\ Len(Get(Get(err).string)) = Min(SnippetLen, Len(state.string))

\* the second rule's pattern failed on a string longer than the snippet
C9_Witness ==
  /\ PatternError
  /\ Len(rules) = 2
  /\ Get(err).rule = Some(rules[2].name)
  /\ Len(state.string) > SnippetLen
  /\ Len(Get(Get(err).string)) = SnippetLen

(* C10, as stated:  once eos() is true it stays true after every operation  *)
(* that registers no rule.                                                  *)
C10_EosStaysTrue == [][Eos(state) => Eos(state')]_vars

(* C10, amended: eos() is true exactly when the remaining string and the    *)
(* queue are both empty, and once true it stays true after every operation  *)
(* that registers no rule, except an enqueue that is handed a token.        *)
C10_EosStaysTrueUnlessEnqueued ==
  [][(Eos(state) /\ ~(op'.name = "enqueue" /\ IsSome(ret'))) => Eos(state')]_vars

\* at the end of the input a call found nothing more and left eos() true
C10_Witness ==
  /\ Eos(state)
  /\ state.input # <<>>
  /\ op.name \in {"scan", "peek", "lookahead", "next", "advance", "dequeue", "enqueue"}
  /\ ret = None
  /\ err = None

(* C11, as stated:  scanWhile with a predicate that is always false returns *)
(* an empty sequence and leaves position, remaining, consumed and the queue *)
(* as they were.                                                            *)
NeverCall == op'.name = "scanWhile" /\ op'.id = "never"

C11_ScanWhileNeverChangesNothing ==
  [][NeverCall => (err' = None /\ ret' = Some(<<>>) /\ state' = state)]_vars

(* C11, amended: such a call never moves the cursor and never scans; it     *)
(* peeks once before asking the predicate, so on an empty queue it leaves   *)
(* the one token that peek() fetched in the queue, or throws the error that *)
(* peek() threw; on a non-empty queue, and when no token is to be had, it   *)
(* returns an empty sequence with the queue as it was.                      *)
C11_ScanWhileNeverOnlyPeeks ==
  [][NeverCall =>
       /\ SameCursor(state, state')
       /\ state.queue # <<>> => (err' = None /\ state'.queue = state.queue)
       /\ IsSome(err') => (ret' = None /\ state' = state)
       /\ err' = None =>
            /\ ret' = Some(<<>>)
            /\ \/ state'.queue = state.queue
               \/ /\ state.queue = <<>>
                  /\ Len(state'.queue) = 1
                  /\ FirstMatchIs(rules, state.string, state'.queue[1])]_vars

\* the call returned [] and the queue holds the token its peek() fetched
C11_Witness ==
  /\ op.name = "scanWhile"
  /\ op.id = "never"
  /\ ret = Some(<<>>)
  /\ state.consumed = <<>>
  /\ Len(state.queue) = 1
  /\ state.queue[1] # HandToken

(* C12: with anchored patterns that match no empty text, scanWhile() with   *)
(* the default predicate returns: it ends with nothing left to scan, and    *)
(* what it returns is the sequence of the tokens it scanned.  The call is   *)
(* stated on what ScanWhile computes in each reachable state; "diverges" is *)
(* the loop that pushes scan()'s undefined for ever.                        *)
DefaultRunEnds(w) ==
  /\ w.out = "ok"
  /\ IsSome(w.token)
  /\ Eos(w.state)
  /\ \A i \in 1..Len(Get(w.token)) : Get(w.token)[i].match.full # <<>>

C12_DefaultScanWhileTerminates ==
  (rules # <<>> /\ SafeRules(rules))
    => DefaultRunEnds(ScanWhile("default", rules, state, keyed))

(* C13: lookahead(n) with n negative, or not an integer, fails with the     *)
(* error of its argument check and leaves the cursor and the queue as they  *)
(* were.                                                                    *)
BadLookArg(c) == c.name = "lookahead" /\ (c.id # "integer" \/ c.n < 0)

C13_LookaheadRejectsBadArgument ==
  [][BadLookArg(op') => (Threw(MsgNumber)' /\ ret' = None /\ state' = state)]_vars

(* C14: in every state whose remaining string is empty, match(pattern)      *)
(* returns no match and throws nothing, whatever the queue holds.           *)
C14_MatchAtEndReturnsNoMatch ==
  [][(op'.name = "match" /\ state.string = <<>>) => (err' = None /\ ret' = None)]_vars

(* C15, as stated:  match(pattern) throws the anchor error for a pattern    *)
(* whose source does not start with "^", in every state and on every call.  *)
UnanchoredIds == {re.id : re \in {p \in Patterns : p.isRegExp /\ p.src0 # "^"}}
AnchoredIds == {re.id : re \in {p \in Patterns : p.isRegExp /\ p.src0 = "^"}}

MatchOf(ids) == op'.name = "match" /\ op'.id \in ids

C15_UnanchoredAlwaysRejected ==
  [][MatchOf(UnanchoredIds) => Threw(MsgAnchor)']_vars

(* C15, amended: away from the end of the stream (remaining and queue both  *)
(* empty, where match returns no match before it looks at the pattern),     *)
(* every match of an unanchored pattern throws the anchor error and never   *)
(* marks the pattern as checked; a pattern once marked stays marked, and no *)
(* match of an anchored pattern throws the anchor error.                    *)
C15_UnanchoredRejectedBeforeEnd ==
  [][/\ MatchOf(UnanchoredIds) =>
          /\ op'.id \notin keyed'
          /\ IF Eos(state) THEN err' = None /\ ret' = None
             ELSE Threw(MsgAnchor)' /\ ret' = None /\ state' = state
     /\ MatchOf(AnchoredIds) => ~Threw(MsgAnchor)'
     /\ keyed \subseteq keyed'
     /\ keyed' \cap UnanchoredIds = {}]_vars

\* the unanchored pattern was rejected after other patterns had been marked
C15_Witness ==
  /\ op.name = "match"
  /\ op.id \in UnanchoredIds
  /\ Threw(MsgAnchor)
  /\ keyed # {}
  /\ state.consumed # <<>>

(* C16: with an empty queue, a non-empty remaining string and only anchored *)
(* patterns none of which matches its start, scan(), peek(), advance() and  *)
(* lookahead(n) for a number n return an empty result, throw nothing and    *)
(* leave position, remaining, consumed and the queue as they were; the      *)
(* state being the same, a repeated call gives the same result.             *)
NothingMatches(rs, st) ==
  /\ st.queue = <<>>
  /\ st.string # <<>>
  /\ \A re \in Registered(rs) :
       re.isRegExp /\ re.src0 = "^" /\ ~IsSome(MatchAtStart(re, st.string))

EmptyResultCall(c) ==
  \/ c.name \in {"scan", "peek", "advance"}
  \/ c.name = "lookahead" /\ c.id # "string"

C16_NoMatchGivesEmptyResult ==
  [][(NothingMatches(rules, state) /\ EmptyResultCall(op'))
     => (err' = None /\ ret' = None /\ state' = state)]_vars

\* after a token was scanned, lookahead(2) found nothing for the rest
C16_Witness ==
  /\ NothingMatches(rules, state)
  /\ rules # <<>>
  /\ state.consumed # <<>>
  /\ op.name = "lookahead"
  /\ op.n = 2
  /\ ret = None
  /\ err = None

(* C17: every scan() that returns a token removes the token's matched text  *)
(* from the front of remaining: remaining before is the matched text        *)
(* followed by remaining after, consumed grows by the matched text and      *)
(* position by its length.                                                  *)
ScanGave == op'.name = "scan" /\ IsSome(ret')

C17_ScanRemovesMatchedText ==
  [][ScanGave =>
       /\ state.string = Get(ret').match.full \o state'.string
       /\ state'.consumed = state.consumed \o Get(ret').match.full
       /\ state'.position = state.position + Len(Get(ret').match.full)]_vars

(* C18: every scan() that returns a token advances by at least one          *)
(* character: position grows and remaining gets shorter, also when the      *)
(* token came from the queue.                                               *)
C18_ScanAdvances ==
  [][ScanGave =>
       /\ state'.position > state.position
       /\ Len(state'.string) < Len(state.string)]_vars

(* C19: the value of a token built without options.Token is capturing       *)
(* group 1 whenever group 1 took part in the match, also when it captured   *)
(* the empty string, and the full matched text otherwise.                   *)
ValueIsGroup1(tok) ==
  tok.value = IF IsSome(tok.match.g1) THEN Get(tok.match.g1) ELSE tok.match.full

C19_ValueIsGroupOneIfCaptured ==
  /\ \A i \in 1..Len(state.queue) : ValueIsGroup1(state.queue[i])
  /\ (op.name \in TokenCalls /\ IsSome(ret)) => ValueIsGroup1(Get(ret))

(* C20: advance(), match(pattern), peek() and lookahead(n) never change     *)
(* position, remaining or consumed; advance() and match() leave the queue   *)
(* as it was; peek() and lookahead(n) only append to it.                    *)
C20_LookingDoesNotConsume ==
  [][/\ op'.name \in {"advance", "match", "peek", "lookahead"}
          => (SameCursor(state, state') /\ state'.input = state.input)
     /\ op'.name \in {"advance", "match"} => state'.queue = state.queue
     /\ op'.name \in {"peek", "lookahead"} => IsPrefix(state.queue, state'.queue)]_vars

\* lookahead(2) appended a token behind one that was queued before
C20_Witness ==
  /\ op.name = "lookahead"
  /\ op.n = 2
  /\ Len(state.queue) = 2
  /\ state.queue[1] = HandToken
  /\ state.queue[2] # HandToken
  /\ ret = Some(state.queue[2])
  /\ state.consumed = <<>>

(* C21: when advance(), next(), scan(), peek(), lookahead(n) or a step of   *)
(* scanWhile throws, nothing is returned and position, remaining, consumed  *)
(* and the queue are as they were before the failing call (for scanWhile:   *)
(* before its failing step, a peek() that fails again in the state the call *)
(* leaves); the same call repeated with the same rules throws the same      *)
(* error and again changes nothing.                                         *)
ArgOf(c) ==
  [isNumber |-> c.id # "string",
   twice |-> 2 * c.n + (IF c.id = "fraction" THEN 1 ELSE 0)]

Repeated(c, rs, st, k) ==
  CASE c.name = "advance"   -> Advanced(st, Advance(rs, st, k))
    [] c.name = "next"      -> Next_(rs, st, k)
    [] c.name = "scan"      -> Scan(rs, st, k)
    [] c.name = "peek"      -> Peek(rs, st, k)
    [] c.name = "lookahead" -> Lookahead(ArgOf(c), rs, st, k)
    [] OTHER                -> ScanWhile(c.id, rs, st, k)

FailsAgain(c, r, e, st) == r.out = "throw" /\ r.err = e /\ r.state = st

C21_ErrorChangesNothing ==
  [][(op'.name \in TokenCalls \cup {"scanWhile"} /\ IsSome(err')) =>
       /\ ret' = None
       /\ op'.name # "scanWhile" => state' = state
       /\ op'.name = "scanWhile" =>
            FailsAgain(op', Peek(rules, state', keyed'), err', state')
       /\ FailsAgain(op', Repeated(op', rules, state', keyed'), err', state')]_vars

\* lookahead(2) threw on a non-empty queue and the queued token is still there
C21_Witness ==
  /\ op.name = "lookahead"
  /\ op.n = 2
  /\ Threw(MsgEmpty)
  /\ state.queue # <<>>
  /\ state.consumed # <<>>

(* C22: every token scan() returns has the range [p, q) where p is the      *)
(* position just before that scan() and q the position just after it, and   *)
(* its match index is p; so the ranges of successive scans are contiguous   *)
(* and start at 0.                                                          *)
C22_ScannedRangeIsCursorSpan ==
  [][ScanGave =>
       /\ Get(ret').range = <<state.position, state'.position>>
       /\ Get(ret').match.index = state.position]_vars

\* the places of the rules named n in the table rs
PlacesOf(rs, n) == {i \in 1..Len(rs) : rs[i].name = n}

\* C23: addRule(name, patterns) on a registered name leaves one entry for the
\* name, holding the new patterns, at the place the name had; every other rule
\* stays where it was, unchanged; and the scanner state, queue included, stays
\* as it was.
C23_ReRegisterKeepsPlace ==
  [][(op'.name = "addRule" /\ PlacesOf(rules, op'.id) # {}) =>
       /\ Len(rules') = Len(rules)
       /\ PlacesOf(rules', op'.id) = PlacesOf(rules, op'.id)
       /\ Cardinality(PlacesOf(rules', op'.id)) = 1
       /\ \A i \in 1..Len(rules) :
            IF rules[i].name = op'.id
              THEN rules'[i] = [name |-> op'.id, patterns |-> op'.patterns]
              ELSE rules'[i] = rules[i]
       /\ state' = state
       /\ keyed' = keyed]_vars

\* a two-rule table whose first rule was re-registered with a token queued
C23_Witness ==
  /\ op.name = "addRule"
  /\ Len(rules) = 2
  /\ rules[1] = [name |-> op.id, patterns |-> op.patterns]
  /\ rules[2].name # op.id
  /\ state.queue # <<>>

\* queue length plus remaining length
Budget(st) == Len(st.queue) + Len(st.string)

\* every registered pattern is a regular expression that starts with ^
AnchoredRules(rs) == \A re \in Registered(rs) : re.isRegExp /\ re.src0 = "^"

\* scan() in the state st returns empty and leaves st as it is
ScansEmpty(rs, st, k) ==
  \E r \in {Scan(rs, st, k)} : r.out = "ok" /\ r.token = None /\ r.state = st

(* a scan() of the run returns; the number of tokens returned so far plus   *)
(* the budget left does not grow, so that a scan that returns a token       *)
(* lowers the budget; and after an empty result nothing has changed and the *)
(* next scan() returns empty again                                          *)
DrainStep ==
  /\ err' = None
  /\ Len(scanned') + Budget(state') <= Len(scanned) + Budget(state)
  /\ IsSome(ret') => Budget(state') < Budget(state)
  /\ ret' = None => (state' = state /\ ScansEmpty(rules, state', keyed'))

\* the run has come to rest on a scan() that returned empty
Drained == Returned("scan") /\ op.id = "run" /\ ret = None

====
